---------------------------- MODULE Spec2Model ----------------------------
(***************************************************************************)
(* Model of the Code-to-Diagram design-editor intent                       *)
(* (src/src/intents/design_editor/app.tsx): the App component's state, the *)
(* Render Dispatcher (renderDiagram), the live-preview effect, the syntax  *)
(* selector handler and the asynchronous insertion handler                 *)
(* (handleAddToDesign) with its two host round trips.                      *)
(*                                                                         *)
(* Texts are sequences of one-character tokens.  The three diagram         *)
(* libraries and the host are outside the repository; they appear here as  *)
(* the outcome of each call the component makes to them:                   *)
(*   "a"  a token the selected syntax's library accepts,                   *)
(*   "x"  a token that makes the library (or JSON.parse) throw,            *)
(*   "d"  for the timing syntax, a well-formed JSON document that          *)
(*        wavedrom turns into markup holding no <svg> element,             *)
(*   "n"  for the timing syntax, a well-formed JSON document (null) on     *)
(*        which wavedrom.renderAny throws,                                 *)
(*   "s"  a token every library accepts and writes into the <svg>, which   *)
(*        then cannot be encoded (a lone surrogate in a label),            *)
(*   " " and "\n" are white space ("\n" also separates lines).             *)
(* "d" and "n" are typed under the timing syntax only: a change of syntax  *)
(* replaces the draft, so no text is rendered under two syntaxes.          *)
(* The default examples of SYNTAX_CONFIGS are abbreviated to one token     *)
(* each ("G", "N", "W"), accepted by the library of their own syntax.      *)
(*                                                                         *)
(* React (18, createRoot) renders the state updates of a discrete event    *)
(* (an edit, a syntax change, a click) with the event, and runs the        *)
(* preview effect of that render with it: handler, re-render and effect    *)
(* run are one action.  Updates made outside a discrete event (by the     *)
(* preview effect, by the promise callback of instance(), by the           *)
(* continuation of handleAddToDesign after an await) are queued in         *)
(* `pending` and rendered together by a later action,                      *)
(* CommitQueuedUpdates; the preview effect that render triggers is a       *)
(* later action again, RunPreviewEffect, and a discrete event delivered    *)
(* before it runs the due effect after its handler.  Updates of one state  *)
(* cell take effect in the order they were made: a setError made by a      *)
(* handler supersedes the ones queued before it.                           *)
(*                                                                         *)
(* The initial state is the mounted component: the first render made, its  *)
(* two effects (the call of instance() and the first preview run) still    *)
(* to run.  They run together, as RunPreviewEffect or with the first       *)
(* discrete event.                                                         *)
(*                                                                         *)
(* Two variables are history: lastRender holds the most recent             *)
(* renderDiagram call (NoRender before the first), lastDone what the       *)
(* handleAddToDesign invocation ended by the latest step did (no           *)
(* invocation when the step ended none).                                   *)
(*                                                                         *)
(* Specifications:                                                         *)
(*   Spec           the component: edits, syntax changes, insertions;      *)
(*   FairSpec       Spec, with the host settling every call it is handed,  *)
(*                  the queued updates rendered and the due effect run;    *)
(*   SpecPackage    the padding arithmetic of handleAddToDesign applied to *)
(*                  one <svg> element drawn from SvgElements;              *)
(*   SpecNormalize  the UML branch of renderDiagram applied to a text and  *)
(*                  to the same text with spaces added at line ends.       *)
(***************************************************************************)
EXTENDS Naturals, Integers, Sequences, FiniteSets

(* ------------------------------ bounds -------------------------------- *)

\* Longest text the editor surface delivers in the model.
MaxLen == 1

\* Most insertion handlers the model lets run at once (the code has no cap;
\* the Button's disabled prop is what keeps it at one).
MaxInFlight == 2

(* ------------------------------ texts --------------------------------- *)

\* The white space String.prototype.trim and trimEnd strip.
WhiteSpace == {" ", "\n"}

\* The tokens of the texts the editor surface delivers; white space is
\* typed as the blank.
Alphabet == {" ", "a", "x", "d", "n", "s"}

\* The texts typed: blanks, or one token of source with blanks after it.
Texts ==
    {t \in UNION {[1..n -> Alphabet] : n \in 0..MaxLen} :
        \A i \in DOMAIN t : t[i] \notin WhiteSpace => i = 1}

DiagramSyntax == {"graphviz", "nomnoml", "wavedrom"}

\* The tokens typed under a syntax: those that stand for an outcome of that
\* syntax's library.
TokensOf(syn) ==
    IF syn = "wavedrom" THEN Alphabet ELSE Alphabet \ {"d", "n"}

\* The texts the editor surface delivers while syn is selected.
TextsOf(syn) ==
    {t \in Texts : \A i \in DOMAIN t : t[i] \in TokensOf(syn)}

\* SYNTAX_CONFIGS[s].defaultCode
defaultCode(s) ==
    CASE s = "graphviz" -> <<"G">>
      [] s = "nomnoml"  -> <<"N">>
      [] s = "wavedrom" -> <<"W">>

\* String.prototype.trimEnd
RECURSIVE trimEnd(_)
trimEnd(t) ==
    IF t # <<>> /\ t[Len(t)] \in WhiteSpace
    THEN trimEnd(SubSeq(t, 1, Len(t) - 1))
    ELSE t

\* trimStart, the other half of String.prototype.trim
RECURSIVE trimStart(_)
trimStart(t) ==
    IF t # <<>> /\ t[1] \in WhiteSpace THEN trimStart(Tail(t)) ELSE t

\* String.prototype.trim
trim(t) == trimStart(trimEnd(t))

\* code.split("\n"): the lines of a text, at least one
RECURSIVE split(_)
split(t) ==
    IF \E i \in 1..Len(t) : t[i] = "\n"
    THEN LET i == CHOOSE k \in 1..Len(t) :
                     t[k] = "\n" /\ \A j \in 1..(k - 1) : t[j] # "\n"
         IN  <<SubSeq(t, 1, i - 1)>> \o split(SubSeq(t, i + 1, Len(t)))
    ELSE <<t>>

\* lines.join("\n")
RECURSIVE join(_)
join(ls) ==
    IF Len(ls) = 1 THEN ls[1] ELSE ls[1] \o <<"\n">> \o join(Tail(ls))

\* Variant: the text is trimmed as a whole, its lines are not.
cleanedWholeTextOnly(code) == trim(code)

\* The nomnoml branch's clean-up: every line trimEnd-ed, the whole trimmed.
cleaned(code) ==
    LET ls == split(code)
    IN  trim(join([i \in 1..Len(ls) |-> trimEnd(ls[i])]))

(* ------------------------ external libraries -------------------------- *)

Chars(t) == {t[i] : i \in 1..Len(t)}

\* The library call (or JSON.parse) throws on this text.
Throws(text) == "x" \in Chars(text)

\* wavedrom.renderAny on a document with no signal/assign/reg: markup
\* without an <svg> element.
NoSvgMarkup(syn, text) == syn = "wavedrom" /\ "d" \in Chars(text)

\* wavedrom.renderAny throws on the document JSON.parse returned.
RenderAnyThrows(text) == "n" \in Chars(text)

\* encodeURIComponent throws on the serialized <svg> rendered from text.
EncodeThrows(text) == "s" \in Chars(text)

(* --------------------------- mount points ----------------------------- *)

\* container.innerHTML = ""
EmptyMount == [kind |-> "empty", src |-> <<>>, by |-> "none", mount |-> "none"]

Rendered(kind, src, syn, container) ==
    [kind |-> kind, src |-> src, by |-> syn, mount |-> container]

(* ------------------------- Render Dispatcher -------------------------- *)

\* What a renderDiagram call comes to: the boolean returned, the content
\* left in the container, the external calls made, and whether an exception
\* was raised inside the try (and caught).
Outcome(ok, content, called, threw) ==
    [ok |-> ok, content |-> content, called |-> called, threw |-> threw]

\* case "graphviz"
renderGraphviz(container, code, syn, viz) ==
    IF viz = "null"
    THEN Outcome(FALSE, EmptyMount, {}, FALSE)
    ELSE IF Throws(code)
    THEN Outcome(FALSE, EmptyMount, {"viz.renderSVGElement"}, TRUE)
    ELSE Outcome(TRUE, Rendered("svg", code, syn, container),
                 {"viz.renderSVGElement"}, FALSE)

\* case "nomnoml"
renderNomnoml(container, code, syn) ==
    IF Throws(cleaned(code))
    THEN Outcome(FALSE, EmptyMount, {"nomnoml.renderSvg"}, TRUE)
    ELSE Outcome(TRUE, Rendered("svg", cleaned(code), syn, container),
                 {"nomnoml.renderSvg"}, FALSE)

\* case "wavedrom"
renderWavedrom(container, code, syn) ==
    IF Throws(trim(code))
    THEN Outcome(FALSE, EmptyMount, {"JSON.parse"}, TRUE)
    ELSE IF RenderAnyThrows(trim(code))
    THEN Outcome(FALSE, EmptyMount, {"JSON.parse", "wavedrom.renderAny"},
                 TRUE)
    ELSE Outcome(TRUE,
                 Rendered(IF NoSvgMarkup(syn, trim(code))
                          THEN "markup" ELSE "svg",
                          trim(code), syn, container),
                 {"JSON.parse", "wavedrom.renderAny",
                  "wavedrom.onml.stringify"}, FALSE)

\* Variant: no early return for blank text; the text goes to the library.
renderDiagramNoBlankCheck(container, code, syn, viz) ==
    CASE syn = "graphviz" -> renderGraphviz(container, code, syn, viz)
      [] syn = "nomnoml"  -> renderNomnoml(container, code, syn)
      [] syn = "wavedrom" -> renderWavedrom(container, code, syn)

\* Variant: no readiness check; renderSVGElement is called on the null
\* instance, which raises inside the try.
renderDiagramNoReadyCheck(container, code, syn, viz) ==
    IF trim(code) = <<>>
    THEN Outcome(FALSE, EmptyMount, {}, FALSE)
    ELSE CASE syn = "graphviz" ->
                IF viz = "null"
                THEN Outcome(FALSE, EmptyMount, {}, TRUE)
                ELSE renderGraphviz(container, code, syn, viz)
           [] syn = "nomnoml"  -> renderNomnoml(container, code, syn)
           [] syn = "wavedrom" -> renderWavedrom(container, code, syn)

\* renderDiagram(container, code) under the closure's syntax and vizInstance.
renderDiagram(container, code, syn, viz) ==
    IF trim(code) = <<>>
    THEN Outcome(FALSE, EmptyMount, {}, FALSE)
    ELSE CASE syn = "graphviz" -> renderGraphviz(container, code, syn, viz)
           [] syn = "nomnoml"  -> renderNomnoml(container, code, syn)
           [] syn = "wavedrom" -> renderWavedrom(container, code, syn)

\* Variant: the container is not cleared; a failed render leaves what the
\* container held.
MountAfterNoClear(prior, r) == IF r.ok THEN r.content ELSE prior

\* The container after a renderDiagram call that found `prior` in it:
\* container.innerHTML = "" first, then what the render attached.
MountAfter(prior, r) == r.content

\* The record a renderDiagram call leaves in the history.
RenderRecord(container, code, syn, viz, r) ==
    [container |-> container, code |-> code, syntax |-> syn, viz |-> viz,
     ok |-> r.ok, called |-> r.called, threw |-> r.threw]

(* ------------------------------ state --------------------------------- *)

VARIABLES
    supported,        \* the entry points isSupported reports usable
    syntax,           \* useState: selected syntax
    codeInput,        \* useState: draft text
    isLoading,        \* useState: busy flag
    error,            \* useState: error message or "null"
    hasValidDiagram,  \* useState: validity flag
    pending,          \* the state updates queued for the next render
    effectDue,        \* the preview effect of the last render has yet to run
    vizInstance,      \* useState: "null" until instance() resolves
    instancePromise,  \* instance(): "uncalled", "pending" or "fulfilled"
    previewRef,       \* content of the visible mount point
    exportRef,        \* content of the off-screen mount point
    calls,            \* the handleAddToDesign invocations awaiting the host
    lastRender,       \* history: the most recent renderDiagram call
    lastDone,         \* history: the invocation the latest step ended, if any
    svgElement,       \* packaging: the <svg> querySelector found
    svgClone,         \* packaging: its clone once padded
    variantPair,      \* normalization: two texts handed to renderDiagram
    rendererGot       \* normalization: what nomnoml.renderSvg received

\* The variables of the packaging and of the normalization, which the
\* specification of the whole component leaves alone.
pureVars == <<svgElement, svgClone, variantPair, rendererGot>>

vars == <<supported, syntax, codeInput, isLoading, error, hasValidDiagram,
          pending, effectDue, vizInstance, instancePromise, previewRef,
          exportRef, calls, lastRender, lastDone,
          svgElement, svgClone, variantPair, rendererGot>>

NoError == "null"
InvalidSyntaxMsg == "Invalid syntax"
FailedMsg == "Failed to add diagram to design"

EntryPoints == <<"addElementAtPoint", "addElementAtCursor">>

\* Variant: the candidates listed in the other order.
addElementPrefersCursor ==
    IF "addElementAtCursor" \in supported THEN "addElementAtCursor"
    ELSE IF "addElementAtPoint" \in supported THEN "addElementAtPoint"
    ELSE "undefined"

\* [addElementAtPoint, addElementAtCursor].find((fn) => isSupported(fn))
addElement ==
    IF \E i \in 1..Len(EntryPoints) : EntryPoints[i] \in supported
    THEN EntryPoints[CHOOSE i \in 1..Len(EntryPoints) :
                         /\ EntryPoints[i] \in supported
                         /\ \A j \in 1..(i - 1) : EntryPoints[j] \notin supported]
    ELSE "undefined"

\* Variant: the disabled prop without the busy flag.
ButtonDisabledNoBusy == addElement = "undefined" \/ ~hasValidDiagram

\* The Button's disabled prop.
ButtonDisabled == addElement = "undefined" \/ isLoading \/ ~hasValidDiagram

(* ----------------------- Live Preview Controller ---------------------- *)

\* No state update awaits its render.  any/valid: a setHasValidDiagram and
\* its argument; error: the argument of the last setError, "none" when
\* none is queued; idle: a setIsLoading(false); viz: the setVizInstance.
NoPending == [any |-> FALSE, valid |-> FALSE, error |-> "none",
              idle |-> FALSE, viz |-> FALSE]

\* A setError made by a handler: it comes after the ones queued, which
\* therefore never show.
Superseded(pend) == [pend EXCEPT !.error = "none"]

\* Variant: setError(null) is missing from the success branch.
EffectUpdatesKeepsError(code, r, pend) ==
    [pend EXCEPT !.any = TRUE,
                 !.valid = r.ok,
                 !.error = IF ~r.ok /\ trim(code) # <<>>
                           THEN InvalidSyntaxMsg
                           ELSE pend.error]

\* Variant: a failed render of a blank text clears the message.
EffectUpdatesClearsOnBlank(code, r, pend) ==
    [pend EXCEPT !.any = TRUE,
                 !.valid = r.ok,
                 !.error = IF ~r.ok /\ trim(code) # <<>>
                           THEN InvalidSyntaxMsg
                           ELSE NoError]

\* The state updates the preview effect makes after the render r of code:
\* setHasValidDiagram(success); setError(null) on success, setError of
\* 'Invalid syntax' on failure of a non-blank text; they join the updates
\* `pend` still awaiting their render.
EffectUpdates(code, r, pend) ==
    [pend EXCEPT !.any = TRUE,
                 !.valid = r.ok,
                 !.error = IF r.ok THEN NoError
                           ELSE IF trim(code) # <<>> THEN InvalidSyntaxMsg
                           ELSE pend.error]

\* The preview effect run on (code, syn, viz): the render into the visible
\* mount point and the state updates it queues over `pend`.
PreviewEffect(code, syn, viz, pend) ==
    LET r == renderDiagram("preview", code, syn, viz)
    IN  /\ previewRef' = MountAfter(previewRef, r)
        /\ pending' = EffectUpdates(code, r, pend)
        /\ lastRender' = RenderRecord("preview", code, syn, viz, r)

\* The render of the preview effect that is due.
DueRender == renderDiagram("preview", codeInput, syntax, vizInstance)

\* The updates queued once a discrete event has run the effect that was
\* due, over the updates `pend` its handler left.
Flushed(pend) ==
    IF effectDue THEN EffectUpdates(codeInput, DueRender, pend) ELSE pend

NoDone == [any |-> FALSE, renderOk |-> FALSE, svgFound |-> FALSE,
           uploadCalls |-> 0, addElementCalls |-> 0, threw |-> "none"]

\* No renderDiagram call has been made.
NoRender == [container |-> "none", code |-> <<>>, syntax |-> "graphviz",
             viz |-> "null", ok |-> FALSE, called |-> {}, threw |-> FALSE]

\* The component mounted: the useState defaults rendered, both mount points
\* empty, the two effects of the first render (the Viz init effect and the
\* preview effect) still to run.
AppInit ==
    /\ supported \in SUBSET {"addElementAtPoint", "addElementAtCursor"}
    /\ syntax = "graphviz"
    /\ codeInput = defaultCode("graphviz")
    /\ isLoading = FALSE
    /\ error = NoError
    /\ hasValidDiagram = FALSE
    /\ vizInstance = "null"
    /\ instancePromise = "uncalled"
    /\ pending = NoPending
    /\ effectDue = TRUE
    /\ previewRef = EmptyMount
    /\ exportRef = EmptyMount
    /\ calls = <<>>
    /\ lastRender = NoRender
    /\ lastDone = NoDone

\* useEffect(() => { instance().then(setVizInstance) }, []): the effects
\* that are due run together, and the first run calls instance().
VizInitEffect ==
    instancePromise' = IF instancePromise = "uncalled" THEN "pending"
                       ELSE instancePromise

(* ----------------- Asset Packager: padding arithmetic ----------------- *)

\* Attribute values are sequences of tokens: a decimal literal ("num", with
\* its value), a white space character ("ws"), a comma, a run of letters
\* that starts no numeric literal such as "pt" or "abc" ("alpha"), and the
\* text NaN that String() gives for a NaN.
Tk(t, v) == [t |-> t, v |-> v]
num(v) == Tk("num", v)
ws == Tk("ws", 0)
comma == Tk("comma", 0)
alpha == Tk("alpha", 0)
NaNText == Tk("NaN", 0)

\* getAttribute returns null for an attribute the element does not carry.
Absent == [present |-> FALSE, val |-> <<>>]
Present(val) == [present |-> TRUE, val |-> val]

\* JavaScript numbers: NaN or a value.
NaN == [nan |-> TRUE, v |-> 0]
Number(v) == [nan |-> FALSE, v |-> v]

\* a + b for a number a and a constant b
plus(a, b) == IF a.nan THEN NaN ELSE Number(a.v + b)

\* a - b for a number a and a constant b
minus(a, b) == IF a.nan THEN NaN ELSE Number(a.v - b)

\* String(n), and ${n} in a template literal
String(n) == IF n.nan THEN <<NaNText>> ELSE <<num(n.v)>>

RECURSIVE skipWhiteSpace(_)
skipWhiteSpace(str) ==
    IF str # <<>> /\ Head(str).t = "ws" THEN skipWhiteSpace(Tail(str))
    ELSE str

\* parseFloat(str): leading white space is skipped, the longest numeric
\* prefix is read, anything after it is ignored; NaN without such a prefix.
parseFloat(str) ==
    LET rest == skipWhiteSpace(str)
    IN  IF rest # <<>> /\ Head(rest).t = "num" THEN Number(Head(rest).v)
        ELSE NaN

\* attr || dflt: null and the empty string are falsy
orElse(attr, dflt) ==
    IF attr.present /\ attr.val # <<>> THEN attr.val ELSE dflt

IsSeparator(tk) == tk.t \in {"ws", "comma"}

\* Index of the first token of str at or after i that is (sep = TRUE) or
\* is not (sep = FALSE) a separator; Len(str) + 1 when there is none.
RECURSIVE firstAt(_, _, _)
firstAt(str, i, sep) ==
    IF i > Len(str) \/ IsSeparator(str[i]) = sep THEN i
    ELSE firstAt(str, i + 1, sep)

\* str.split(/[\s,]+/): the pieces between the runs of separators, an empty
\* piece before a leading run and after a trailing one.
RECURSIVE splitOnSeparators(_)
splitOnSeparators(str) ==
    LET i == firstAt(str, 1, TRUE)
    IN  IF i > Len(str) THEN <<str>>
        ELSE <<SubSeq(str, 1, i - 1)>>
                 \o splitOnSeparators(
                        SubSeq(str, firstAt(str, i, FALSE), Len(str)))

\* parts[k] ?? dflt (k counted from 1): only a missing part is replaced
partOr(parts, k, dflt) == IF k <= Len(parts) THEN parts[k] ELSE dflt

defaultWidth == 400
defaultHeight == 300
padding == 20

\* n + padding * 2
padded(n) == plus(n, padding * 2)

\* The clone of the <svg> element el after the padding block of
\* handleAddToDesign: cloneNode(true), the viewBox rewritten when the
\* element has a truthy one, width and height set.
PackagedClone(el) ==
    LET width == parseFloat(orElse(el.width, <<num(defaultWidth)>>))
        height == parseFloat(orElse(el.height, <<num(defaultHeight)>>))
        totalWidth == padded(width)
        totalHeight == padded(height)
        viewBox == el.viewBox
        pieces == splitOnSeparators(viewBox.val)
        parts == [k \in 1..Len(pieces) |-> parseFloat(pieces[k])]
        vbX == partOr(parts, 1, Number(0))
        vbY == partOr(parts, 2, Number(0))
        vbW == partOr(parts, 3, width)
        vbH == partOr(parts, 4, height)
    IN  [done |-> TRUE,
         width |-> Present(String(totalWidth)),
         height |-> Present(String(totalHeight)),
         viewBox |->
             IF viewBox.present /\ viewBox.val # <<>>
             THEN Present(String(minus(vbX, padding)) \o <<ws>>
                          \o String(minus(vbY, padding)) \o <<ws>>
                          \o String(padded(vbW)) \o <<ws>>
                          \o String(padded(vbH)))
             ELSE viewBox]

\* No element packaged yet.
NoElement == [width |-> Absent, height |-> Absent, viewBox |-> Absent]
NoClone == [done |-> FALSE, width |-> Absent, height |-> Absent,
            viewBox |-> Absent]

(* --------------- Render Dispatcher: UML normalization ----------------- *)

\* What nomnoml.renderSvg received from a renderDiagram call on `code`
\* under the UML syntax, and what the call came to.
Received(code) ==
    LET r == renderDiagram("preview", code, "nomnoml", "Viz")
    IN  [passed |-> "nomnoml.renderSvg" \in r.called,
         arg |-> IF "nomnoml.renderSvg" \in r.called THEN cleaned(code)
                 ELSE <<>>,
         result |-> r]

NoPair == [code |-> <<>>, other |-> <<>>, pads |-> 0]
NoGot == [done |-> FALSE, first |-> Received(<<>>), second |-> Received(<<>>)]

\* The packaging and the normalization at rest.
PureIdle ==
    /\ svgElement = NoElement
    /\ svgClone = NoClone
    /\ variantPair = NoPair
    /\ rendererGot = NoGot

Init == AppInit /\ PureIdle

(* ------------------------------ events -------------------------------- *)

\* instance().then(setVizInstance): the promise callback queues the
\* instance.
VizInitComplete ==
    /\ instancePromise = "pending"
    /\ instancePromise' = "fulfilled"
    /\ pending' = [pending EXCEPT !.viz = TRUE]
    /\ lastDone' = NoDone
    /\ UNCHANGED <<supported, syntax, codeInput, isLoading, error,
                   hasValidDiagram, effectDue, vizInstance, previewRef,
                   exportRef, calls, lastRender>>
    /\ UNCHANGED pureVars

\* The render of the queued state updates.  When it takes the instance,
\* renderDiagram is re-created and the preview effect, which depends on
\* it, is due.  An effect still due runs before the render.
CommitQueuedUpdates ==
    /\ pending # NoPending
    /\ ~effectDue
    /\ hasValidDiagram' = IF pending.any THEN pending.valid
                          ELSE hasValidDiagram
    /\ error' = IF pending.error = "none" THEN error ELSE pending.error
    /\ isLoading' = IF pending.idle THEN FALSE ELSE isLoading
    /\ vizInstance' = IF pending.viz THEN "Viz" ELSE vizInstance
    /\ effectDue' = pending.viz
    /\ pending' = NoPending
    /\ lastDone' = NoDone
    /\ UNCHANGED <<supported, syntax, codeInput, instancePromise,
                   previewRef, exportRef, calls, lastRender>>
    /\ UNCHANGED pureVars

\* The effects that are due run: the preview effect of the first render
\* (with it the Viz init effect) or of a render of queued updates.
RunPreviewEffect ==
    /\ effectDue
    /\ PreviewEffect(codeInput, syntax, vizInstance, pending)
    /\ effectDue' = FALSE
    /\ VizInitEffect
    /\ lastDone' = NoDone
    /\ UNCHANGED <<supported, syntax, codeInput, isLoading, error,
                   hasValidDiagram, vizInstance, exportRef, calls>>
    /\ UNCHANGED pureVars

\* Variant: an edit abandons the insertions awaiting the host.
onChangeCancelsPending(value) ==
    /\ value # codeInput
    /\ codeInput' = value
    /\ PreviewEffect(value, syntax, vizInstance, Flushed(pending))
    /\ effectDue' = FALSE
    /\ VizInitEffect
    /\ calls' = <<>>
    /\ isLoading' = FALSE
    /\ lastDone' = NoDone
    /\ UNCHANGED <<supported, syntax, error, hasValidDiagram, vizInstance,
                   exportRef>>
    /\ UNCHANGED pureVars

\* MultilineInput onChange: setCodeInput(value), the re-render, and the
\* preview effect it triggers, after the one that was due.
onChange(value) ==
    /\ value # codeInput
    /\ codeInput' = value
    /\ PreviewEffect(value, syntax, vizInstance, Flushed(pending))
    /\ effectDue' = FALSE
    /\ VizInitEffect
    /\ lastDone' = NoDone
    /\ UNCHANGED <<supported, syntax, isLoading, error, hasValidDiagram,
                   vizInstance, exportRef, calls>>
    /\ UNCHANGED pureVars

\* Variant: no setCodeInput; the draft text survives the change.
handleSyntaxChangeKeepsText(newSyntax) ==
    /\ syntax' = newSyntax
    /\ codeInput' = codeInput
    /\ error' = NoError
    /\ IF newSyntax # syntax
       THEN PreviewEffect(codeInput, newSyntax, vizInstance,
                          Flushed(Superseded(pending)))
       ELSE IF effectDue
       THEN PreviewEffect(codeInput, syntax, vizInstance,
                          Superseded(pending))
       ELSE /\ pending' = Superseded(pending)
            /\ UNCHANGED <<previewRef, lastRender>>
    /\ effectDue' = FALSE
    /\ VizInitEffect
    /\ lastDone' = NoDone
    /\ UNCHANGED <<supported, isLoading, hasValidDiagram, vizInstance,
                   exportRef, calls>>
    /\ UNCHANGED pureVars

\* The component has rendered no update yet: the effects of the first
\* render have not run, nothing is queued.  On such a component a state
\* setter called with the value its cell already holds is dropped without
\* a render being scheduled.
FreshlyMounted ==
    instancePromise = "uncalled" /\ effectDue /\ pending = NoPending

\* handleSyntaxChange(newSyntax): setSyntax, setCodeInput of the default,
\* setError(null), the effect that was due, the re-render, and the preview
\* effect, which re-runs when the syntax or the text changed.  On the
\* freshly mounted component the selection of the syntax already selected
\* sets three values the cells already hold: no render follows, the
\* effects stay due.
handleSyntaxChange(newSyntax) ==
    IF /\ FreshlyMounted
       /\ newSyntax = syntax
       /\ defaultCode(newSyntax) = codeInput
       /\ error = NoError
    THEN /\ lastDone' = NoDone
         /\ UNCHANGED <<supported, syntax, codeInput, isLoading, error,
                        hasValidDiagram, pending, effectDue, vizInstance,
                        instancePromise, previewRef, exportRef, calls,
                        lastRender>>
         /\ UNCHANGED pureVars
    ELSE /\ syntax' = newSyntax
         /\ codeInput' = defaultCode(newSyntax)
         /\ error' = NoError
         /\ IF newSyntax # syntax \/ defaultCode(newSyntax) # codeInput
            THEN PreviewEffect(defaultCode(newSyntax), newSyntax,
                               vizInstance, Flushed(Superseded(pending)))
            ELSE IF effectDue
            THEN PreviewEffect(codeInput, syntax, vizInstance,
                               Superseded(pending))
            ELSE /\ pending' = Superseded(pending)
                 /\ UNCHANGED <<previewRef, lastRender>>
         /\ effectDue' = FALSE
         /\ VizInitEffect
         /\ lastDone' = NoDone
         /\ UNCHANGED <<supported, isLoading, hasValidDiagram, vizInstance,
                        exportRef, calls>>
         /\ UNCHANGED pureVars

(* -------------------------- Asset Packager ---------------------------- *)

\* exportRef.current.querySelector("svg") finds an element
svgFound(content) == content.kind = "svg"

\* The data URL built from the cloned <svg>: what it was rendered from, by
\* which library, and the mount point the element was taken from; threw
\* when btoa(unescape(encodeURIComponent(svgString))) raises instead.
dataUrl(content) ==
    [threw |-> EncodeThrows(content.src), src |-> content.src,
     by |-> content.by, mount |-> content.mount]

(* ---------------------------- Host Bridge ----------------------------- *)

\* Variant: the thumbnail is uploaded by a second upload call.
InvocationUploadsTwice(pc, code, syn, content, entry) ==
    [pc |-> pc, code |-> code, syntax |-> syn, asset |-> dataUrl(content),
     entry |-> entry, uploadCalls |-> 2, addElementCalls |-> 0]

\* One handleAddToDesign invocation suspended at an await, the upload call
\* made.
Invocation(pc, code, syn, content, entry) ==
    [pc |-> pc, code |-> code, syntax |-> syn, asset |-> dataUrl(content),
     entry |-> entry, uploadCalls |-> 1, addElementCalls |-> 0]

Remove(s, i) == SubSeq(s, 1, i - 1) \o SubSeq(s, i + 1, Len(s))

\* What an invocation that ended did.
Done(renderOk, found, up, ins, threw) ==
    [any |-> TRUE, renderOk |-> renderOk, svgFound |-> found,
     uploadCalls |-> up, addElementCalls |-> ins, threw |-> threw]

\* Variant: the catch block sets no message.
FinishSilent(renderOk, found, up, ins, threw) ==
    /\ error' = NoError
    /\ isLoading' = FALSE
    /\ lastDone' = Done(renderOk, found, up, ins, threw)

\* Variant: setIsLoading(false) at the end of the try block, not in a
\* finally.
FinishBusyOnError(renderOk, found, up, ins, threw) ==
    /\ error' = FailedMsg
    /\ isLoading' = TRUE
    /\ lastDone' = Done(renderOk, found, up, ins, threw)

\* catch { setError(...) } finally { setIsLoading(false) } of an invocation
\* that threw before its first await, inside the click: the updates are
\* rendered with those the handler made before (setIsLoading(true),
\* setError(null)).  `threw` names the step that threw.
Finish(renderOk, found, up, ins, threw) ==
    /\ error' = FailedMsg
    /\ isLoading' = FALSE
    /\ lastDone' = Done(renderOk, found, up, ins, threw)

\* Variant: the continuation's updates are dropped.
ContinuationDropsUpdates(i, threw) ==
    /\ pending' = pending
    /\ lastDone' = Done(TRUE, TRUE, calls[i].uploadCalls,
                        calls[i].addElementCalls, threw)
    /\ calls' = Remove(calls, i)

\* The end of an invocation resumed after an await: catch { setError(...) }
\* when the awaited call rejected (`threw` names it, "none" when the
\* sequence ran to its end) and finally { setIsLoading(false) }; the
\* updates are queued for the next render.
Continuation(i, threw) ==
    /\ pending' = [pending EXCEPT
                       !.error = IF threw # "none" THEN FailedMsg ELSE @,
                       !.idle = TRUE]
    /\ lastDone' = Done(TRUE, TRUE, calls[i].uploadCalls,
                        calls[i].addElementCalls, threw)
    /\ calls' = Remove(calls, i)

\* Variant: the <svg> is taken from the live preview's mount point.
handleAddToDesignFromPreview ==
    IF addElement = "undefined"
    THEN UNCHANGED vars
    ELSE LET r == renderDiagram("export", codeInput, syntax, vizInstance)
         IN  /\ exportRef' = MountAfter(exportRef, r)
             /\ IF effectDue
                THEN PreviewEffect(codeInput, syntax, vizInstance,
                                   Superseded(pending))
                ELSE /\ pending' = Superseded(pending)
                     /\ lastRender' = RenderRecord("export", codeInput,
                                                   syntax, vizInstance, r)
                     /\ UNCHANGED previewRef
             /\ effectDue' = FALSE
             /\ VizInitEffect
             /\ IF ~r.ok
                THEN /\ Finish(FALSE, FALSE, 0, 0, "render")
                     /\ UNCHANGED calls
                ELSE IF ~svgFound(previewRef)
                THEN /\ Finish(TRUE, FALSE, 0, 0, "svg")
                     /\ UNCHANGED calls
                ELSE IF dataUrl(previewRef).threw
                THEN /\ Finish(TRUE, TRUE, 0, 0, "package")
                     /\ UNCHANGED calls
                ELSE /\ isLoading' = TRUE
                     /\ error' = NoError
                     /\ calls' = Append(calls,
                                    Invocation("upload", codeInput, syntax,
                                               previewRef, addElement))
                     /\ lastDone' = NoDone
             /\ UNCHANGED <<supported, syntax, codeInput, hasValidDiagram,
                            vizInstance>>

\* handleAddToDesign up to its first await: the guard, setIsLoading(true),
\* setError(null), the export render, the packaging and the upload call;
\* the catch and finally when one of these throws; then the preview effect
\* that was due, and the re-render.
handleAddToDesign ==
    IF addElement = "undefined"
    THEN UNCHANGED vars
    ELSE LET r == renderDiagram("export", codeInput, syntax, vizInstance)
         IN  /\ exportRef' = MountAfter(exportRef, r)
             /\ IF effectDue
                THEN PreviewEffect(codeInput, syntax, vizInstance,
                                   Superseded(pending))
                ELSE /\ pending' = Superseded(pending)
                     /\ lastRender' = RenderRecord("export", codeInput,
                                                   syntax, vizInstance, r)
                     /\ UNCHANGED previewRef
             /\ effectDue' = FALSE
             /\ VizInitEffect
             /\ IF ~r.ok
                THEN /\ Finish(FALSE, FALSE, 0, 0, "render")
                     /\ UNCHANGED calls
                ELSE IF ~svgFound(r.content)
                THEN /\ Finish(TRUE, FALSE, 0, 0, "svg")
                     /\ UNCHANGED calls
                ELSE IF dataUrl(r.content).threw
                THEN /\ Finish(TRUE, TRUE, 0, 0, "package")
                     /\ UNCHANGED calls
                ELSE /\ isLoading' = TRUE
                     /\ error' = NoError
                     /\ calls' = Append(calls,
                                    Invocation("upload", codeInput, syntax,
                                               r.content, addElement))
                     /\ lastDone' = NoDone
             /\ UNCHANGED <<supported, syntax, codeInput, hasValidDiagram,
                            vizInstance>>

\* The Button's onClick: only an enabled button delivers it.
ClickAddToDesign ==
    /\ ~ButtonDisabled
    /\ Len(calls) < MaxInFlight
    /\ handleAddToDesign
    /\ UNCHANGED pureVars

\* upload(...) resolves: the handler resumes and calls addElement(...).
uploadResolves(i) ==
    /\ calls[i].pc = "upload"
    /\ calls' = [calls EXCEPT ![i].pc = "addElement",
                              ![i].addElementCalls = 1]
    /\ lastDone' = NoDone
    /\ UNCHANGED <<supported, syntax, codeInput, isLoading, error,
                   hasValidDiagram, pending, effectDue, vizInstance,
                   instancePromise,
                   previewRef, exportRef, lastRender>>
    /\ UNCHANGED pureVars

\* Variant: a rejected upload is swallowed and the handler goes on to call
\* addElement(...).
uploadRejectsStillInserts(i) ==
    /\ calls[i].pc = "upload"
    /\ calls' = [calls EXCEPT ![i].pc = "addElement",
                              ![i].addElementCalls = 1]
    /\ lastDone' = NoDone
    /\ UNCHANGED <<supported, syntax, codeInput, isLoading, error,
                   hasValidDiagram, pending, effectDue, vizInstance,
                   instancePromise,
                   previewRef, exportRef, lastRender>>
    /\ UNCHANGED pureVars

\* upload(...) rejects: catch and finally.
uploadRejects(i) ==
    /\ calls[i].pc = "upload"
    /\ Continuation(i, "upload")
    /\ UNCHANGED <<supported, syntax, codeInput, isLoading, error,
                   hasValidDiagram, effectDue, vizInstance, instancePromise,
                   previewRef,
                   exportRef, lastRender>>
    /\ UNCHANGED pureVars

\* addElement(...) resolves: finally.
addElementResolves(i) ==
    /\ calls[i].pc = "addElement"
    /\ Continuation(i, "none")
    /\ UNCHANGED <<supported, syntax, codeInput, isLoading, error,
                   hasValidDiagram, effectDue, vizInstance, instancePromise,
                   previewRef,
                   exportRef, lastRender>>
    /\ UNCHANGED pureVars

\* addElement(...) rejects: catch and finally.
addElementRejects(i) ==
    /\ calls[i].pc = "addElement"
    /\ Continuation(i, "addElement")
    /\ UNCHANGED <<supported, syntax, codeInput, isLoading, error,
                   hasValidDiagram, effectDue, vizInstance, instancePromise,
                   previewRef,
                   exportRef, lastRender>>
    /\ UNCHANGED pureVars

Next ==
    \/ VizInitComplete
    \/ CommitQueuedUpdates
    \/ RunPreviewEffect
    \/ \E value \in TextsOf(syntax) : onChange(value)
    \/ \E newSyntax \in DiagramSyntax : handleSyntaxChange(newSyntax)
    \/ ClickAddToDesign
    \/ \E i \in 1..Len(calls) : uploadResolves(i)
    \/ \E i \in 1..Len(calls) : uploadRejects(i)
    \/ \E i \in 1..Len(calls) : addElementResolves(i)
    \/ \E i \in 1..Len(calls) : addElementRejects(i)

Spec == Init /\ [][Next]_vars

\* The host settles every call it was handed: an outstanding upload(...)
\* and an outstanding addElement(...) are eventually resolved or rejected;
\* and React renders the updates queued and runs the effect that is due.
FairSpec ==
    /\ Spec
    /\ WF_vars(CommitQueuedUpdates)
    /\ WF_vars(RunPreviewEffect)
    /\ WF_vars(\E i \in 1..Len(calls) : uploadResolves(i) \/ uploadRejects(i))
    /\ WF_vars(\E i \in 1..Len(calls) :
                  addElementResolves(i) \/ addElementRejects(i))

(* ------------------- the packaging, input by input -------------------- *)

\* Most numbers a viewBox attribute lists in the model.
MaxParts == 4

ViewBoxNumbers == {0, 50, 100}

NumberLists == UNION {[1..n -> ViewBoxNumbers] : n \in 1..MaxParts}

\* the literals of ns with sep between them
RECURSIVE joinWith(_, _)
joinWith(ns, sep) ==
    IF Len(ns) = 1 THEN <<num(ns[1])>>
    ELSE <<num(ns[1])>> \o sep \o joinWith(Tail(ns), sep)

\* viewBox attributes: none, empty, and lists of numbers separated by a
\* space, a comma or a comma and a space, with or without a space before
\* the first number and after the last.
ViewBoxAttrs ==
    {Absent, Present(<<>>)}
        \cup {Present(lead \o joinWith(ns, sep) \o trail) :
                  ns \in NumberLists,
                  sep \in {<<ws>>, <<comma>>, <<comma, ws>>},
                  lead \in {<<>>, <<ws>>},
                  trail \in {<<>>, <<ws>>}}

\* width attributes: none, "", "400", "100pt", "abc"
WidthAttrs ==
    {Absent, Present(<<>>), Present(<<num(400)>>),
     Present(<<num(100), alpha>>), Present(<<alpha>>)}

\* height attributes: none, "", "300", "50pt", "abc"
HeightAttrs ==
    {Absent, Present(<<>>), Present(<<num(300)>>),
     Present(<<num(50), alpha>>), Present(<<alpha>>)}

\* The <svg> elements querySelector may find in the export mount point.
SvgElements ==
    [width : WidthAttrs, height : HeightAttrs, viewBox : ViewBoxAttrs]

\* An element found, about to be packaged.
InitPackage ==
    /\ AppInit
    /\ supported = {"addElementAtPoint", "addElementAtCursor"}
    /\ svgElement \in SvgElements
    /\ svgClone = NoClone
    /\ variantPair = NoPair
    /\ rendererGot = NoGot

\* The padding block of handleAddToDesign runs on the element found.
Package ==
    /\ ~svgClone.done
    /\ svgClone' = PackagedClone(svgElement)
    /\ UNCHANGED <<supported, syntax, codeInput, isLoading, error,
                   hasValidDiagram, pending, effectDue, vizInstance,
                   instancePromise,
                   previewRef, exportRef, calls, lastRender, lastDone, svgElement, variantPair,
                   rendererGot>>

NextPackage == Package

SpecPackage == InitPackage /\ [][NextPackage]_vars

(* ----------------- the normalization, input by input ------------------ *)

\* Longest text handed to the UML branch in the model.
MaxCode == 3

\* Most trailing white space characters added to a text.
MaxPads == 2

CodeAlphabet == {" ", "\n", "a", "x"}

Codes == UNION {[1..n -> CodeAlphabet] : n \in 0..MaxCode}

\* The positions of t at which a line ends.
LineEnds(t) == {q \in 1..(Len(t) + 1) : q = Len(t) + 1 \/ t[q] = "\n"}

InsertAt(t, q, c) == SubSeq(t, 1, q - 1) \o <<c>> \o SubSeq(t, q, Len(t))

\* A text, and a second text equal to it.
InitNormalize ==
    /\ AppInit
    /\ supported = {"addElementAtPoint", "addElementAtCursor"}
    /\ svgElement = NoElement
    /\ svgClone = NoClone
    /\ variantPair \in {[code |-> t, other |-> t, pads |-> 0] : t \in Codes}
    /\ rendererGot = NoGot

\* The second text gains a space at the end of one of its lines.
AddTrailingSpace(q) ==
    /\ ~rendererGot.done
    /\ variantPair.pads < MaxPads
    /\ q \in LineEnds(variantPair.other)
    /\ variantPair' = [variantPair EXCEPT
                          !.other = InsertAt(variantPair.other, q, " "),
                          !.pads = variantPair.pads + 1]
    /\ UNCHANGED <<supported, syntax, codeInput, isLoading, error,
                   hasValidDiagram, pending, effectDue, vizInstance,
                   instancePromise,
                   previewRef, exportRef, calls, lastRender, lastDone, svgElement, svgClone,
                   rendererGot>>

\* renderDiagram runs on each of the two texts under the UML syntax.
RenderBoth ==
    /\ ~rendererGot.done
    /\ rendererGot' = [done |-> TRUE,
                       first |-> Received(variantPair.code),
                       second |-> Received(variantPair.other)]
    /\ UNCHANGED <<supported, syntax, codeInput, isLoading, error,
                   hasValidDiagram, pending, effectDue, vizInstance,
                   instancePromise,
                   previewRef, exportRef, calls, lastRender, lastDone, svgElement, svgClone,
                   variantPair>>

NextNormalize ==
    \/ \E q \in 1..(MaxCode + MaxPads + 1) : AddTrailingSpace(q)
    \/ RenderBoth

SpecNormalize == InitNormalize /\ [][NextNormalize]_vars

(* ------------------------------ claims -------------------------------- *)

\* What the Render Dispatcher says of the current draft.
DraftRenders == renderDiagram("preview", codeInput, syntax, vizInstance).ok

\* C1: the 'Add to design' control is enabled only when an insertion entry
\* point is usable, the current draft renders successfully and no insertion
\* is in progress; with no usable entry point it is disabled whatever the
\* draft.
C1_EnabledOnlyWhenAllThree ==
    /\ ~ButtonDisabled => (supported # {} /\ DraftRenders /\ calls = <<>>)
    /\ supported = {} => ButtonDisabled

\* C1, the case of the divergence: the control enabled on a typed draft the
\* preview has just failed to render, the validity flag not yet committed.
C1_Witness ==
    /\ ~ButtonDisabled
    /\ codeInput \in Texts
    /\ ~DraftRenders
    /\ lastRender.container = "preview"
    /\ ~lastRender.ok
    /\ pending.any
    /\ ~pending.valid

\* C4 as claimed: the busy flag is true exactly while an insertion action
\* is under way: false before any invocation, true while its upload/insert
\* sequence is outstanding, false once it has finished, however it
\* finished.
C4_Original == isLoading <=> calls # <<>>

\* C4 amended: the busy flag is false before any invocation and true while
\* an invocation is outstanding; once the invocation has ended, however it
\* ended, the flag is false after the next render of the queued updates,
\* and at once when the invocation ended before its first await.
C4_BusyUntilRenderAfterEnd ==
    /\ [](/\ calls # <<>> => isLoading
          /\ isLoading => (calls # <<>> \/ pending.idle)
          /\ pending.idle => isLoading)
    /\ [][/\ (CommitQueuedUpdates /\ pending.idle) => ~isLoading'
          /\ (\E i \in 1..Len(calls) :
                   \/ uploadRejects(i)
                   \/ addElementResolves(i)
                   \/ addElementRejects(i)) => pending'.idle
          /\ (ClickAddToDesign /\ calls' = calls) => ~isLoading']_vars

\* C4 witness: the insertion call rejected and nothing left with the host,
\* the flag still true until the queued setIsLoading(false) is rendered.
C4_Witness ==
    /\ lastDone.any
    /\ lastDone.threw = "addElement"
    /\ calls = <<>>
    /\ isLoading
    /\ pending.idle

\* C5: insertion attempts never overlap: at most one invocation, hence at
\* most one upload or insertion call, is outstanding at any time.
C5_NoOverlap == Len(calls) <= 1

\* C5 witness: a round trip outstanding while the draft, edited meanwhile,
\* is valid and an entry point is usable: only the busy flag disables the
\* control.
C5_Witness ==
    /\ Len(calls) = 1
    /\ codeInput # calls[1].code
    /\ hasValidDiagram
    /\ addElement # "undefined"
    /\ ButtonDisabled

\* C2: once a render has been attempted, the validity flag is true if and
\* only if the most recent render attempt, which is one for the current
\* draft text and the current syntax, succeeded.
C2_ValidIffLastRenderSucceeded ==
    lastRender # NoRender
        => /\ lastRender.code = codeInput
           /\ lastRender.syntax = syntax
           /\ hasValidDiagram <=> lastRender.ok

\* C2, the case of the divergence: the export render of the current draft
\* has failed, an insertion attempted on a flag that was still true.
C2_Witness ==
    /\ lastDone.any
    /\ lastDone.threw = "render"
    /\ lastRender.container = "export"
    /\ lastRender.code = codeInput
    /\ lastRender.syntax = syntax
    /\ ~lastRender.ok
    /\ hasValidDiagram

\* C3 as claimed: an invocation whose export render succeeded (and found
\* its <svg> element) made exactly one upload call and exactly one
\* insertion call.
C3_Original ==
    (lastDone.any /\ lastDone.renderOk /\ lastDone.svgFound)
        => (lastDone.uploadCalls = 1 /\ lastDone.addElementCalls = 1)

\* C3 amended: an invocation makes exactly one upload call when the export
\* render succeeds and yields an <svg> element, followed by exactly one
\* insertion call if that upload resolves and by none if it rejects; it
\* makes no upload and no insertion call when the export render fails,
\* yields no <svg> element, or the packaging of the element throws.
C3_UploadThenInsertUnlessRejected ==
    /\ \A i \in 1..Len(calls) :
          /\ calls[i].uploadCalls = 1
          /\ calls[i].addElementCalls =
                 IF calls[i].pc = "addElement" THEN 1 ELSE 0
    /\ lastDone.any =>
          IF lastDone.renderOk /\ lastDone.svgFound
                 /\ lastDone.threw # "package"
          THEN /\ lastDone.uploadCalls = 1
               /\ lastDone.threw \in {"upload", "addElement", "none"}
               /\ lastDone.addElementCalls =
                      IF lastDone.threw = "upload" THEN 0 ELSE 1
          ELSE /\ lastDone.uploadCalls = 0
               /\ lastDone.addElementCalls = 0
               /\ lastDone.threw \in {"render", "svg", "package"}
               /\ lastDone.threw = "render" <=> ~lastDone.renderOk
               /\ lastDone.threw = "svg" <=> (lastDone.renderOk
                                                 /\ ~lastDone.svgFound)

\* C3 witness: an invocation that ran to its end: one upload, one insertion.
C3_Witness ==
    /\ lastDone.any
    /\ lastDone.threw = "none"
    /\ lastDone.uploadCalls = 1
    /\ lastDone.addElementCalls = 1

\* The content of the mount point the most recent render was made into.
LastRenderMount ==
    IF lastRender.container = "preview" THEN previewRef ELSE exportRef

\* C6: for every syntax, a render of empty or whitespace-only text returns
\* failure, leaves the mount point empty and calls no external renderer,
\* JSON.parse included.
C6_BlankTextFailsWithoutRenderer ==
    (lastRender # NoRender /\ trim(lastRender.code) = <<>>)
        => /\ ~lastRender.ok
           /\ lastRender.called = {}
           /\ ~lastRender.threw
           /\ LastRenderMount = EmptyMount

\* C6 witness: a whitespace-only text rendered under the timing syntax.
C6_Witness ==
    /\ lastRender.code # <<>>
    /\ trim(lastRender.code) = <<>>
    /\ lastRender.syntax = "wavedrom"
    /\ ~hasValidDiagram

\* A handleAddToDesign invocation ends in its catch block in this step.
InsertionFails ==
    \/ ClickAddToDesign /\ calls' = calls
    \/ \E i \in 1..Len(calls) : uploadRejects(i) \/ addElementRejects(i)

\* A handleAddToDesign invocation advances without failing in this step.
InsertionAdvances ==
    \/ ClickAddToDesign /\ calls' # calls
    \/ \E i \in 1..Len(calls) : uploadResolves(i) \/ addElementResolves(i)

\* C7: every failure of the insertion sequence ends in the catch block,
\* which reports 'Failed to add diagram to design' (at once when the
\* failure precedes the first await, by a queued update which the next
\* render displays otherwise); the handler produces no other message.
C7_FailureReportedGenerically ==
    [][/\ InsertionFails =>
            /\ lastDone'.any
            /\ lastDone'.threw # "none"
            /\ IF lastDone'.threw \in {"upload", "addElement"}
               THEN pending'.error = FailedMsg /\ error' = error
               ELSE error' = FailedMsg
       /\ InsertionAdvances =>
            /\ error' \in {error, NoError}
            /\ ~effectDue => pending'.error \in {pending.error, "none"}
       /\ (CommitQueuedUpdates /\ pending.error = FailedMsg)
            => error' = FailedMsg]_vars

\* C7 witness: the message displayed after a failure the host caused: the
\* export render and the packaging of the current draft had succeeded.
C7_Witness ==
    /\ error = FailedMsg
    /\ pending = NoPending
    /\ ~isLoading
    /\ lastRender.container = "export"
    /\ lastRender.ok
    /\ exportRef.kind = "svg"
    /\ ~EncodeThrows(exportRef.src)

\* C8: a render under the graph syntax before the graph renderer is ready
\* returns failure without calling the renderer and without raising, for
\* every non-empty text.
C8_NotReadyFailsGracefully ==
    (lastRender.syntax = "graphviz" /\ lastRender.viz = "null"
         /\ trim(lastRender.code) # <<>>)
        => /\ ~lastRender.ok
           /\ lastRender.called = {}
           /\ ~lastRender.threw
           /\ LastRenderMount = EmptyMount

\* C8 witness: a typed, well-formed graph text rendered before setup ended.
C8_Witness ==
    /\ lastRender.syntax = "graphviz"
    /\ lastRender.viz = "null"
    /\ lastRender.code \in Texts
    /\ trim(lastRender.code) # <<>>
    /\ ~Throws(lastRender.code)
    /\ ~hasValidDiagram

\* C9: a syntax change selects the syntax, resets the draft to exactly its
\* default example and clears the message displayed; no message set before
\* the change comes back after it: the one update that may then await its
\* commit is the 'Invalid syntax' of the failed render of the new default,
\* which is queued whenever the selection replaces the syntax or the text
\* by the graph syntax and its default before the Viz instance has
\* arrived.  The selection of the graph syntax on the freshly mounted
\* component leaves everything as it is, the first effects still due.
C9_SyntaxChangeResetsDraft ==
    [][\A s \in DiagramSyntax :
          handleSyntaxChange(s)
              => /\ syntax' = s
                 /\ codeInput' = defaultCode(s)
                 /\ error' = NoError
                 /\ (s = "graphviz" /\ vizInstance = "null"
                        /\ (syntax # s \/ codeInput # defaultCode(s)))
                        => /\ pending'.error = InvalidSyntaxMsg
                           /\ pending'.any /\ ~pending'.valid
                 /\ (FreshlyMounted /\ s = syntax
                        /\ codeInput = defaultCode(s))
                        => /\ effectDue' /\ pending' = NoPending
                           /\ instancePromise' = "uncalled"
                           /\ lastRender' = NoRender
                 /\ effectDue' => FreshlyMounted
                 /\ pending'.error \notin {"none", NoError}
                        => /\ pending'.error = InvalidSyntaxMsg
                           /\ lastRender' =
                                  RenderRecord("preview", defaultCode(s), s,
                                      vizInstance,
                                      renderDiagram("preview", defaultCode(s),
                                          s, vizInstance))
                           /\ ~lastRender'.ok]_vars

\* C9 witness: the timing syntax selected after an insertion was attempted
\* under the UML syntax: its default in the editor, rendered and marked
\* valid, no message displayed.
C9_Witness ==
    /\ syntax = "wavedrom"
    /\ codeInput = defaultCode("wavedrom")
    /\ error = NoError
    /\ pending = NoPending
    /\ hasValidDiagram
    /\ lastRender.container = "preview"
    /\ exportRef.by = "nomnoml"

\* The text renderDiagram hands to the library of a syntax.
RendererInput(syn, code) ==
    CASE syn = "graphviz" -> code
      [] syn = "nomnoml"  -> cleaned(code)
      [] syn = "wavedrom" -> trim(code)

\* C10: the asset an invocation uploads is packaged from a fresh render,
\* made into the off-screen mount point, of the draft text and syntax
\* current when the action was invoked; the preview's content is not used.
C10_AssetFromFreshExportRender ==
    /\ [](\A i \in 1..Len(calls) :
            /\ calls[i].asset.mount = "export"
            /\ calls[i].asset.by = calls[i].syntax
            /\ calls[i].asset.src =
                   RendererInput(calls[i].syntax, calls[i].code))
    /\ [][Len(calls') > Len(calls)
             => /\ calls'[Len(calls')].code = codeInput
                /\ calls'[Len(calls')].syntax = syntax
                /\ calls'[Len(calls')].asset = dataUrl(exportRef')
                /\ exportRef' = renderDiagram("export", codeInput, syntax,
                                              vizInstance).content
                /\ previewRef' \in {previewRef, DueRender.content}
                /\ ~effectDue =>
                      lastRender' = RenderRecord("export", codeInput, syntax,
                                        vizInstance,
                                        renderDiagram("export", codeInput,
                                            syntax, vizInstance))]_vars

\* C10 witness: an asset on its way to the host, packaged from a typed text
\* under the UML syntax, while the preview already shows a later edit.
C10_Witness ==
    /\ Len(calls) = 1
    /\ calls[1].pc = "addElement"
    /\ calls[1].syntax = "nomnoml"
    /\ calls[1].code \in Texts
    /\ calls[1].asset.src = calls[1].code
    /\ previewRef.kind = "svg"
    /\ previewRef.src # calls[1].asset.src

\* C11: the entry point selected, and the one every insertion call goes
\* to, is addElementAtPoint whenever it is usable, addElementAtCursor only
\* when addElementAtPoint is not usable and it is, and none when neither is.
C11_PositionAwarePreferred ==
    /\ "addElementAtPoint" \in supported => addElement = "addElementAtPoint"
    /\ ("addElementAtPoint" \notin supported
            /\ "addElementAtCursor" \in supported)
           => addElement = "addElementAtCursor"
    /\ supported = {} => (addElement = "undefined" /\ calls = <<>>)
    /\ \A i \in 1..Len(calls) :
          /\ calls[i].entry \in supported
          /\ "addElementAtPoint" \in supported
                 => calls[i].entry = "addElementAtPoint"

\* C11 witness: both entry points usable, the insertion call made through
\* the position-aware one.
C11_Witness ==
    /\ supported = {"addElementAtPoint", "addElementAtCursor"}
    /\ Len(calls) = 1
    /\ calls[1].pc = "addElement"
    /\ calls[1].entry = "addElementAtPoint"

\* C14: the insertion call of an invocation is made only once its upload
\* has resolved: none while the upload is pending, none when it rejects,
\* and no host call at all before the upload.
C14_InsertOnlyAfterUpload ==
    /\ [](\A i \in 1..Len(calls) :
            /\ calls[i].pc \in {"upload", "addElement"}
            /\ calls[i].uploadCalls = 1
            /\ calls[i].pc = "upload" => calls[i].addElementCalls = 0)
    /\ [][/\ \A i \in 1..Len(calls) :
                uploadRejects(i)
                    => /\ Len(calls') < Len(calls)
                       /\ lastDone'.threw = "upload"
                       /\ lastDone'.addElementCalls = 0
          /\ Len(calls') > Len(calls)
                => /\ calls'[Len(calls')].pc = "upload"
                   /\ calls'[Len(calls')].addElementCalls = 0
          /\ \A i \in 1..Len(calls) :
                (Len(calls') = Len(calls)
                     /\ calls'[i].addElementCalls > calls[i].addElementCalls)
                    => uploadResolves(i)]_vars

\* C14 witness: an upload rejected after the draft was edited; the
\* invocation ended with its one upload call and no insertion call.
C14_Witness ==
    /\ lastDone.any
    /\ lastDone.threw = "upload"
    /\ lastDone.uploadCalls = 1
    /\ lastDone.addElementCalls = 0
    /\ exportRef.kind = "svg"
    /\ codeInput # exportRef.src

\* C15: every renderDiagram call clears the mount point before rendering:
\* after a call that returned failure the mount point is empty, and after
\* one that succeeded it holds that render's output and nothing else.
C15_MountClearedBeforeRender ==
    /\ (lastRender # NoRender /\ ~lastRender.ok)
           => LastRenderMount = EmptyMount
    /\ lastRender.ok
           => /\ LastRenderMount.kind \in {"svg", "markup"}
              /\ LastRenderMount.by = lastRender.syntax
              /\ LastRenderMount.mount = lastRender.container
              /\ LastRenderMount.src =
                     RendererInput(lastRender.syntax, lastRender.code)
    /\ [][(previewRef.kind # "empty" /\ lastRender'.container = "preview"
               /\ ~lastRender'.ok)
              => previewRef' = EmptyMount]_vars

\* C15 witness: a renderer exception on a typed text; the preview, which
\* showed diagrams before (one was exported), is empty.
C15_Witness ==
    /\ lastRender.container = "preview"
    /\ lastRender.threw
    /\ ~lastRender.ok
    /\ previewRef = EmptyMount
    /\ exportRef.kind = "svg"

\* The preview effect runs in this step on the draft the step leaves: one
\* of its dependencies changed, or it was due and the step made a render.
PreviewRuns ==
    \/ RunPreviewEffect
    \/ ClickAddToDesign /\ effectDue
    \/ \E value \in TextsOf(syntax) : onChange(value)
    \/ \E newSyntax \in DiagramSyntax :
          /\ handleSyntaxChange(newSyntax)
          /\ (newSyntax # syntax \/ defaultCode(newSyntax) # codeInput
                 \/ (effectDue /\ ~FreshlyMounted))

\* What the Render Dispatcher says of the draft the step leaves.
DraftRendersAfter ==
    renderDiagram("preview", codeInput', syntax', vizInstance').ok

\* C16: each run of the preview effect marks the draft with the render's
\* result; on success it clears the error; on failure of a non-blank text
\* it sets 'Invalid syntax', whatever the syntax and whatever made the
\* render fail; the render of these updates displays them.
C16_PreviewPostconditions ==
    /\ [][PreviewRuns =>
             /\ pending'.any
             /\ pending'.valid = DraftRendersAfter
             /\ DraftRendersAfter => pending'.error = NoError
             /\ (~DraftRendersAfter /\ trim(codeInput') # <<>>)
                   => pending'.error = InvalidSyntaxMsg
             /\ lastRender'.container = "preview"
             /\ lastRender'.ok = DraftRendersAfter]_vars
    /\ [][(CommitQueuedUpdates /\ pending.any) =>
             /\ hasValidDiagram' = pending.valid
             /\ pending.error # "none" => error' = pending.error
             /\ pending' = NoPending]_vars

\* C16 witness: a typed draft accepted under the UML syntax, its updates
\* committed: marked valid and shown without error, an insertion having
\* been attempted before.
C16_Witness ==
    /\ syntax = "nomnoml"
    /\ lastRender.container = "preview"
    /\ lastRender.ok
    /\ lastRender.code = codeInput
    /\ codeInput \in Texts
    /\ pending = NoPending
    /\ hasValidDiagram
    /\ error = NoError
    /\ exportRef.kind = "svg"

\* C18: provided the host settles every call and the queued updates are
\* rendered, the busy flag always becomes false again.  A failed invocation
\* leaves the flag false, or a setIsLoading(false) queued which the next
\* render of queued updates applies; the failure changes neither the
\* validity flag nor the entry point, so the step that brings the flag
\* back to false leaves the control enabled exactly when the draft is
\* marked valid and an entry point is usable.
C18_FailureLeavesRetryable ==
    /\ isLoading ~> ~isLoading
    /\ [][InsertionFails
              => /\ ~isLoading' \/ pending'.idle
                 /\ hasValidDiagram' = hasValidDiagram
                 /\ supported' = supported
                 /\ ~isLoading'
                        => (ButtonDisabled'
                               <=> ~(hasValidDiagram /\ addElement # "undefined"))
       ]_vars
    /\ [][(CommitQueuedUpdates /\ pending.idle)
              => /\ ~isLoading'
                 /\ ButtonDisabled'
                        <=> ~(hasValidDiagram' /\ addElement # "undefined")
       ]_vars

\* C18 witness: a rejected insertion call behind and rendered, the same
\* draft still valid and the control enabled for a retry.
C18_Witness ==
    /\ error = FailedMsg
    /\ pending = NoPending
    /\ ~isLoading
    /\ calls = <<>>
    /\ lastRender.container = "export"
    /\ lastRender.ok
    /\ ~EncodeThrows(exportRef.src)
    /\ hasValidDiagram
    /\ ~ButtonDisabled

\* C19, its last clause as stated: as long as the setup of the graph
\* renderer has not completed, the draft is not marked valid while the
\* graph syntax is selected.  (The setup may never complete after any
\* such state: nothing obliges instance() to settle.)
C19_Original ==
    (syntax = "graphviz" /\ instancePromise # "fulfilled")
        => ~hasValidDiagram

\* C19, the case of the divergence: the graph syntax selected while a UML
\* draft was marked valid, the setup still running: the graph draft, which
\* no render can accept yet, is marked valid and the control is enabled.
C19_Witness ==
    /\ syntax = "graphviz"
    /\ codeInput = defaultCode("graphviz")
    /\ instancePromise = "pending"
    /\ vizInstance = "null"
    /\ lastRender.container = "preview"
    /\ lastRender.syntax = "graphviz"
    /\ ~lastRender.ok
    /\ hasValidDiagram
    /\ error = NoError
    /\ ~ButtonDisabled

\* C20: a run of the preview effect on an empty or whitespace-only text
\* marks the draft invalid and issues no update of the error: the error
\* displayed, and the update of it awaiting its render, are left as they
\* were (as the effect that was due left them, when the step ran that one
\* first), and the render of the run's updates changes no error either.
C20_BlankPreviewKeepsError ==
    /\ [][(PreviewRuns /\ trim(codeInput') = <<>>)
             => /\ pending'.any
                /\ ~pending'.valid
                /\ pending'.error =
                       IF codeInput' # codeInput
                       THEN Flushed(pending).error
                       ELSE pending.error
                /\ error' = error]_vars
    /\ [][(CommitQueuedUpdates /\ pending.error = "none")
             => error' = error]_vars

\* C20 witness: a whitespace-only draft under which 'Invalid syntax' is
\* still displayed.
C20_Witness ==
    /\ codeInput # <<>>
    /\ trim(codeInput) = <<>>
    /\ lastRender.container = "preview"
    /\ lastRender.code = codeInput
    /\ pending = NoPending
    /\ ~hasValidDiagram
    /\ error = InvalidSyntaxMsg

\* The attribute declares a number: a numeric literal, with or without a
\* unit after it.
DeclaresNumber(attr) ==
    attr.present /\ attr.val # <<>> /\ attr.val[1].t = "num"

DeclaredNumber(attr) == attr.val[1].v

NumbersOf(str) == SelectSeq(str, LAMBDA tk : tk.t = "num")

\* The attribute declares a rectangle: four numbers separated by white
\* space and commas, white space allowed before the first number and
\* after the last.
DeclaresRectangle(attr) ==
    /\ attr.present
    /\ Len(NumbersOf(attr.val)) = 4
    /\ \A k \in 1..Len(attr.val) :
          /\ attr.val[k].t \in {"num", "ws", "comma"}
          /\ attr.val[k].t = "comma"
                 => /\ \E i \in 1..(k - 1) : attr.val[i].t = "num"
                    /\ \E j \in (k + 1)..Len(attr.val) : attr.val[j].t = "num"

\* C12 as stated: packaging adds 20 units on every side: a declared width
\* w becomes w + 40 and a declared height h becomes h + 40; a declared
\* rectangle [x, y, vw, vh] becomes [x - 20, y - 20, vw + 40, vh + 40]; an
\* element without viewBox gets none.
C12_Original ==
    svgClone.done =>
        /\ DeclaresNumber(svgElement.width)
               => svgClone.width
                      = Present(<<num(DeclaredNumber(svgElement.width) + 40)>>)
        /\ DeclaresNumber(svgElement.height)
               => svgClone.height
                      = Present(<<num(DeclaredNumber(svgElement.height) + 40)>>)
        /\ DeclaresRectangle(svgElement.viewBox)
               => LET r == NumbersOf(svgElement.viewBox.val)
                  IN  svgClone.viewBox
                          = Present(<<num(r[1].v - 20), ws, num(r[2].v - 20), ws,
                                      num(r[3].v + 40), ws, num(r[4].v + 40)>>)
        /\ ~svgElement.viewBox.present => ~svgClone.viewBox.present
        /\ (svgElement.width = Present(<<num(400)>>)
                /\ svgElement.height = Present(<<num(300)>>)
                /\ ~svgElement.viewBox.present)
               => svgClone = [done |-> TRUE,
                              width |-> Present(<<num(440)>>),
                              height |-> Present(<<num(340)>>),
                              viewBox |-> Absent]

\* C12, the case of the divergence: 400 x 300 with viewBox " 0 0 100 50"
\* (a space before the first number) is packaged as 440 x 340 with viewBox
\* "NaN -20 40 140": split() yields an empty first piece, every number
\* moves one place to the right and the fourth is dropped.
C12_Witness ==
    /\ svgElement.width = Present(<<num(400)>>)
    /\ svgElement.height = Present(<<num(300)>>)
    /\ svgElement.viewBox = Present(<<ws, num(0), ws, num(0), ws, num(100),
                                      ws, num(50)>>)
    /\ svgClone.done
    /\ svgClone.width = Present(<<num(440)>>)
    /\ svgClone.height = Present(<<num(340)>>)
    /\ svgClone.viewBox = Present(<<NaNText, ws, num(0 - 20), ws, num(40),
                                    ws, num(140)>>)

\* C13: under the UML syntax two texts that differ only in white space at
\* the end of their lines reach nomnoml.renderSvg as the same string and
\* come to the same result; the normalization of a normalized text is that
\* text.
C13_TrailingSpaceNormalizedAway ==
    rendererGot.done =>
        /\ rendererGot.first = rendererGot.second
        /\ cleaned(rendererGot.first.arg) = rendererGot.first.arg
        /\ cleaned(cleaned(variantPair.other)) = cleaned(variantPair.other)

\* C13 witness: two lines, the second text with a space after each of
\* them, both texts handed to the renderer.
C13_Witness ==
    /\ rendererGot.done
    /\ variantPair.code = <<"a", "\n", "a">>
    /\ variantPair.other = <<"a", " ", "\n", "a", " ">>
    /\ rendererGot.first.passed
    /\ rendererGot.second.passed
    /\ rendererGot.second.arg = variantPair.code

\* C17 as stated: a width or height that is absent or does not parse as a
\* number is replaced by 400 or 300, so the packaged value is 440 or 340.
C17_Original ==
    svgClone.done =>
        /\ ~DeclaresNumber(svgElement.width)
               => svgClone.width = Present(<<num(440)>>)
        /\ ~DeclaresNumber(svgElement.height)
               => svgClone.height = Present(<<num(340)>>)

\* C17, the case of the divergence: a width that is present and not
\* numeric is packaged as NaN.
C17_Witness ==
    /\ svgElement.width = Present(<<alpha>>)
    /\ svgClone.done
    /\ svgClone.width = Present(<<NaNText>>)

\* The user edits the text or changes the syntax in this step.
UserEdits ==
    \/ \E value \in TextsOf(syntax) : onChange(value)
    \/ \E newSyntax \in DiagramSyntax : handleSyntaxChange(newSyntax)

\* C21: while an invocation awaits the host the editor and the selector
\* still take input; no edit, whatever it does to the draft, removes or
\* changes the invocation; the asset it carries stays the one packaged
\* from the text of the moment it was invoked; and the host can still
\* settle it.
C21_PendingInsertionNotCancellable ==
    /\ [](calls # <<>> =>
            /\ ENABLED (\E value \in TextsOf(syntax) : onChange(value))
            /\ codeInput # <<>> => ENABLED onChange(<<>>)
            /\ ENABLED (\E newSyntax \in DiagramSyntax :
                            handleSyntaxChange(newSyntax))
            /\ \A i \in 1..Len(calls) :
                  /\ calls[i].asset =
                         dataUrl(Rendered("svg",
                                          RendererInput(calls[i].syntax,
                                                        calls[i].code),
                                          calls[i].syntax, "export"))
                  /\ calls[i].pc = "upload" => ENABLED uploadResolves(i)
                  /\ calls[i].pc = "addElement"
                         => ENABLED addElementResolves(i))
    /\ [][UserEdits => (calls' = calls /\ isLoading' = isLoading)]_vars
    /\ [][\A i \in 1..Len(calls) :
             Len(calls') = Len(calls)
                 => /\ calls'[i].asset = calls[i].asset
                    /\ calls'[i].code = calls[i].code
                    /\ calls'[i].syntax = calls[i].syntax]_vars

\* C21 witness: the insertion call is with the host for a text typed
\* under the UML syntax while the draft has since been emptied, the syntax
\* changed and the draft made invalid.
C21_Witness ==
    /\ Len(calls) = 1
    /\ calls[1].pc = "addElement"
    /\ calls[1].syntax = "nomnoml"
    /\ calls[1].code \in Texts
    /\ calls[1].asset.src = calls[1].code
    /\ syntax = "wavedrom"
    /\ trim(codeInput) = <<>>
    /\ ~hasValidDiagram
    /\ previewRef = EmptyMount
    /\ isLoading

=============================================================================
